---- MODULE Spec2Model ----
(***************************************************************************)
(* RTMP chunk codec of rtmpy: rtmpy/protocol/rtmp/codec.py (Channel,       *)
(* Codec, FrameReader, ChannelDemuxer, Decoder, ChannelMuxer, Encoder).    *)
(*                                                                         *)
(* Byte strings are sequences of slices <<src, lo, hi>>: the bytes         *)
(* lo+1..hi of the source src, where src is a message id (body bytes) or   *)
(* an encoded header (header bytes).  Two byte strings are equal exactly   *)
(* when they hold the same bytes of the same sources in the same order.    *)
(* An optional value (Python's None) is a sequence of length 0 or 1.       *)
(***************************************************************************)
EXTENDS Integers, Sequences, FiniteSets, TLC

VARIABLES
    dec,        \* the Decoder object (Codec + FrameReader + ChannelDemuxer state)
    net,        \* bytes the peer has produced and the transport has not delivered
    dout,       \* outcome of the last operation on the decoder
    dispatched, \* dispatcher.dispatchMessage calls so far, in order
    frames,     \* the frames FrameReader.next has returned so far, in order
    peer,       \* the remote peer: the chunks written, the messages in progress
    resized,    \* channels that existed at the last Codec.setFrameSize call
    enc,        \* the Encoder object (Codec + ChannelMuxer + Encoder state)
    eout,       \* outcome of the last operation on the encoder, and the calls made
    sent,       \* the messages handed to send so far, in order
    wire,       \* the chunks the encoder has written so far, in order
    chan,       \* a Channel of rtmpy/rtmp/__init__.py and the calls its manager got
    mgr,        \* a ChannelManager of rtmpy/rtmp/__init__.py
    strm,       \* a BaseStream of rtmpy/rtmp/stream.py
    lout        \* outcome of the last operation on chan, mgr or strm

encVars == <<enc, eout, sent, wire>>
legVars == <<chan, mgr, strm, lout>>
vars == <<dec, net, dout, dispatched, frames, peer, resized, enc, eout, sent, wire,
          chan, mgr, strm, lout>>

----------------------------------------------------------------------------
(* Program constants *)

FRAME_SIZE == 128
MAX_CHANNELS == 64
MIN_CHANNEL_ID == 3

None == << >>
Some(x) == << x >>
Min2(a, b) == IF a <= b THEN a ELSE b
Min3(a, b, c) == Min2(a, Min2(b, c))

----------------------------------------------------------------------------
(* Byte strings *)

RECURSIVE DLen(_)
DLen(d) == IF d = << >> THEN 0 ELSE (d[1][3] - d[1][2]) + DLen(Tail(d))

\* str + str
DCat(a, b) ==
    IF a = << >> THEN b
    ELSE IF b = << >> THEN a
    ELSE LET x == a[Len(a)]
             y == b[1]
         IN IF x[1] = y[1] /\ x[3] = y[2]
            THEN SubSeq(a, 1, Len(a) - 1) \o << <<x[1], x[2], y[3]>> >> \o Tail(b)
            ELSE a \o b

\* the first n bytes of d
RECURSIVE DTake(_, _)
DTake(d, n) ==
    IF n <= 0 \/ d = << >> THEN << >>
    ELSE LET s == d[1]
             w == s[3] - s[2]
         IN IF w <= n THEN << s >> \o DTake(Tail(d), n - w)
            ELSE << <<s[1], s[2], s[2] + n>> >>

\* d without its first n bytes
RECURSIVE DDrop(_, _)
DDrop(d, n) ==
    IF n <= 0 \/ d = << >> THEN d
    ELSE LET s == d[1]
             w == s[3] - s[2]
         IN IF w <= n THEN DDrop(Tail(d), n - w)
            ELSE << <<s[1], s[2] + n, s[3]>> >> \o Tail(d)

----------------------------------------------------------------------------
(* Headers.  A field the wire form does not carry is Absent. *)

Absent == 0 - 1

Header(channelId, timestamp, datatype, bodyLength, streamId, relative) ==
    [channelId |-> channelId, timestamp |-> timestamp, datatype |-> datatype,
     bodyLength |-> bodyLength, streamId |-> streamId, relative |-> relative]

NoHeader == Header(Absent, Absent, Absent, Absent, Absent, FALSE)

\* where a byte comes from: the body of message m, or the encoding of header h
BodySrc(m) == [m |-> m, h |-> NoHeader]
HdrSrc(h) == [m |-> 0, h |-> h]
IsHdrSrc(src) == src.m = 0

\* the whole body of message m, of length L
Body(m, L) == IF L = 0 THEN << >> ELSE << <<BodySrc(m), 0, L>> >>

\* The four wire forms: which fields each carries.
Format(h) ==
    IF ~h.relative THEN 0
    ELSE IF h.bodyLength # Absent THEN 1
    ELSE IF h.timestamp # Absent THEN 2
    ELSE 3

WireHeader(fmt, channelId, timestamp, datatype, bodyLength, streamId) ==
    CASE fmt = 0 -> Header(channelId, timestamp, datatype, bodyLength, streamId, FALSE)
      [] fmt = 1 -> Header(channelId, timestamp, datatype, bodyLength, Absent, TRUE)
      [] fmt = 2 -> Header(channelId, timestamp, Absent, Absent, Absent, TRUE)
      [] OTHER   -> Header(channelId, Absent, Absent, Absent, Absent, TRUE)

\* encoded size: the leading byte, one more for ids 64..319, then 11, 7, 3 or 0
HeaderLen(h) ==
    1 + (IF h.channelId >= 64 THEN 1 ELSE 0)
      + (CASE Format(h) = 0 -> 11 [] Format(h) = 1 -> 7 [] Format(h) = 2 -> 3 [] OTHER -> 0)

encodeHeader(h) == << <<HdrSrc(h), 0, HeaderLen(h)>> >>

\* header.decodeHeader(stream): the header at the read position, IOError when
\* its bytes are not all there, Malformed when the bytes there are no header.
decodeHeader(buf, pos) ==
    LET rest == DDrop(buf, pos)
    IN IF rest = << >> THEN [err |-> "IOError", h |-> NoHeader, pos |-> pos]
       ELSE LET s == rest[1]
            IN IF ~IsHdrSrc(s[1]) \/ s[2] # 0
               THEN [err |-> "Malformed", h |-> NoHeader, pos |-> pos]
               ELSE IF s[3] < HeaderLen(s[1].h)
               THEN [err |-> "IOError", h |-> NoHeader, pos |-> pos]
               ELSE [err |-> "ok", h |-> s[1].h, pos |-> pos + HeaderLen(s[1].h)]

\* header.mergeHeaders(old, new): a carried field is taken from new, the rest
\* inherited; a pure timestamp delta is added to the previous timestamp.
mergeHeaders(old, new) ==
    Header(old.channelId,
           IF new.timestamp = Absent THEN old.timestamp
           ELSE IF Format(new) = 2 THEN old.timestamp + new.timestamp
           ELSE new.timestamp,
           IF new.datatype = Absent THEN old.datatype ELSE new.datatype,
           IF new.bodyLength = Absent THEN old.bodyLength ELSE new.bodyLength,
           IF new.streamId = Absent THEN old.streamId ELSE new.streamId,
           FALSE)

\* message.STREAMABLE_TYPES: audio and video
STREAMABLE_TYPES == {8, 9}

----------------------------------------------------------------------------
(* class Channel *)

\* Channel.reset that leaves the byte count
Channel_reset_keepBytes(c) ==
    [c EXCEPT !.bodyRemaining = None, !.frameRemaining = c.frameSize]

\* Channel.reset
Channel_reset(c) ==
    [c EXCEPT !.bytes = 0, !.bodyRemaining = None, !.frameRemaining = c.frameSize]

\* Channel.__init__
Channel(channelId, frameSize) ==
    Channel_reset([channelId |-> channelId, header |-> None, frameSize |-> frameSize,
                   bytes |-> 0, bodyRemaining |-> None, frameRemaining |-> 0])

\* Channel.setHeader without the test for a first relative header
Channel_setHeader_unchecked(c, new) ==
    LET h == IF new.relative /\ c.header # None
             THEN mergeHeaders(c.header[1], new) ELSE new
    IN [err |-> "ok",
        c |-> [c EXCEPT !.header = Some(h),
                        !.bodyRemaining = Some(h.bodyLength - c.bytes)]]

\* Channel.setHeader: [err, c]
Channel_setHeader(c, new) ==
    IF c.header = None /\ new.relative
    THEN [err |-> "HeaderError", c |-> c]
    ELSE LET h == IF new.relative THEN mergeHeaders(c.header[1], new) ELSE new
         IN [err |-> "ok",
             c |-> [c EXCEPT !.header = Some(h),
                             !.bodyRemaining = Some(h.bodyLength - c.bytes)]]

\* Channel._adjustFrameRemaining
Channel_adjustFrameRemaining(c, l) ==
    LET size == c.frameSize
        l1 == IF l >= size THEN l % size ELSE l
        hit == l1 >= c.frameRemaining
        l2 == IF hit THEN l1 - c.frameRemaining ELSE l1
        fr == IF hit THEN size ELSE c.frameRemaining
    IN [c EXCEPT !.frameRemaining = fr - l2]

\* BufferedByteStream.read(l) at pos: the outcomes [err, data, pos].  A negative
\* length either raises or reads to the end of the buffer, by the build.
StreamRead(buf, pos, l) ==
    LET rest == DDrop(buf, pos)
    IN IF l < 0
       THEN {[err |-> "IOError", data |-> << >>, pos |-> pos]}
            \cup (IF rest = << >> THEN {}
                  ELSE {[err |-> "ok", data |-> rest, pos |-> pos + DLen(rest)]})
       ELSE IF l > DLen(rest)
       THEN {[err |-> "IOError", data |-> << >>, pos |-> pos]}
       ELSE {[err |-> "ok", data |-> DTake(rest, l), pos |-> pos + l]}

\* Channel.readFrame: the outcomes [err, c, data, pos]
Channel_readFrame(c, buf, pos) ==
    LET l == Min3(c.frameRemaining, c.frameSize, c.bodyRemaining[1])
    IN { IF r.err # "ok"
         THEN [err |-> r.err, c |-> c, data |-> << >>, pos |-> pos]
         ELSE [err |-> "ok",
               c |-> Channel_adjustFrameRemaining(
                        [c EXCEPT !.bytes = c.bytes + l,
                                  !.bodyRemaining = Some(c.bodyRemaining[1] - l)], l),
               data |-> r.data, pos |-> r.pos]
         : r \in StreamRead(buf, pos, l) }

\* Channel.complete
Channel_complete(c) == c.bodyRemaining = None \/ c.bodyRemaining = Some(0)

----------------------------------------------------------------------------
(* class Codec *)

\* Codec.__init__ (with the members ChannelDemuxer.__init__ adds, and the
\* timestamps of the stream objects the stream factory hands out)
Codec_init ==
    [channels |-> << >>, frameSize |-> FRAME_SIZE, buf |-> << >>, pos |-> 0,
     bucket |-> << >>, streams |-> << >>]

\* Codec.setFrameSize
Codec_setFrameSize(d, size) ==
    [d EXCEPT !.frameSize = size,
              !.channels = [i \in DOMAIN d.channels |->
                               [d.channels[i] EXCEPT !.frameSize = size]]]

\* Codec.getChannel that stores the new channel before it tests the id
Codec_getChannel_late(d, channelId) ==
    IF channelId \in DOMAIN d.channels THEN [err |-> "ok", d |-> d]
    ELSE [err |-> IF channelId > MAX_CHANNELS THEN "IndexError" ELSE "ok",
          d |-> [d EXCEPT !.channels =
                    d.channels @@ (channelId :> Channel(channelId, d.frameSize))]]

\* Codec.getChannel without the test of the id
Codec_getChannel_unchecked(d, channelId) ==
    IF channelId \in DOMAIN d.channels THEN [err |-> "ok", d |-> d]
    ELSE [err |-> "ok",
          d |-> [d EXCEPT !.channels =
                    d.channels @@ (channelId :> Channel(channelId, d.frameSize))]]

\* Codec.getChannel: [err, d]
Codec_getChannel(d, channelId) ==
    IF channelId \in DOMAIN d.channels THEN [err |-> "ok", d |-> d]
    ELSE IF channelId > MAX_CHANNELS THEN [err |-> "IndexError", d |-> d]
    ELSE [err |-> "ok",
          d |-> [d EXCEPT !.channels =
                    d.channels @@ (channelId :> Channel(channelId, d.frameSize))]]

----------------------------------------------------------------------------
(* class FrameReader *)

\* FrameReader.send
FrameReader_send(d, data) == [d EXCEPT !.buf = DCat(d.buf, data)]

\* what a step reports: kind is "frame", or the exception that ended it
Outcome(kind, d, data, complete, meta, ch, body0) ==
    [kind |-> kind, d |-> d, data |-> data, complete |-> complete, meta |-> meta,
     ch |-> ch, body0 |-> body0, frame |-> data]

\* FrameReader.next, the except IOError branch: d is the codec as the failed
\* try block left it, pos the position saved on entry
FrameReader_rewind(d, pos, ch) ==
    IF pos = DLen(d.buf)
    THEN Outcome("StopIteration", [d EXCEPT !.buf = DDrop(d.buf, pos), !.pos = 0],
                 << >>, FALSE, None, ch, None)
    ELSE Outcome("IOError", [d EXCEPT !.pos = pos], << >>, FALSE, None, ch, None)

\* FrameReader.next: the set of outcomes of one step
FrameReader_next(d) ==
    LET pos == d.pos
        hd == decodeHeader(d.buf, pos)
    IN IF hd.err = "IOError" THEN {FrameReader_rewind(d, pos, Absent)}
       ELSE IF hd.err # "ok" THEN {Outcome(hd.err, d, << >>, FALSE, None, Absent, None)}
       ELSE
       LET h == hd.h
           d1 == [d EXCEPT !.pos = hd.pos]
           g == Codec_getChannel(d1, h.channelId)
       IN IF g.err # "ok"
          THEN {Outcome(g.err, g.d, << >>, FALSE, None, h.channelId, None)}
          ELSE
          LET sh == Channel_setHeader(g.d.channels[h.channelId], h)
              d2 == [g.d EXCEPT !.channels[h.channelId] = sh.c]
          IN IF sh.err # "ok"
             THEN {Outcome(sh.err, d2, << >>, FALSE, None, h.channelId, None)}
             ELSE
             { IF rf.err # "ok"
               THEN FrameReader_rewind(d2, pos, h.channelId)
               ELSE LET c == IF Channel_complete(rf.c) THEN Channel_reset(rf.c) ELSE rf.c
                    IN Outcome("frame",
                               [d2 EXCEPT !.channels[h.channelId] = c, !.pos = rf.pos],
                               rf.data, Channel_complete(c), c.header, h.channelId,
                               sh.c.bodyRemaining)
               : rf \in Channel_readFrame(sh.c, d2.buf, d2.pos) }

----------------------------------------------------------------------------
(* class ChannelDemuxer *)

\* dict.get(key, '')
BucketGet(bucket, channelId) ==
    IF channelId \in DOMAIN bucket THEN bucket[channelId] ELSE << >>

\* dict.pop(key, ''): the dict without the key
BucketPop(bucket, channelId) ==
    [i \in DOMAIN bucket \ {channelId} |-> bucket[i]]

\* ChannelDemuxer.next that splices the final frame in front of the accumulator
ChannelDemuxer_handle_prepend(o) ==
    IF o.kind # "frame" THEN o
    ELSE IF o.meta[1].datatype \in STREAMABLE_TYPES THEN [o EXCEPT !.kind = "message"]
    ELSE LET channelId == o.meta[1].channelId
         IN IF o.complete
            THEN [o EXCEPT !.kind = "message",
                           !.data = DCat(o.data, BucketGet(o.d.bucket, channelId)),
                           !.d.bucket = BucketPop(o.d.bucket, channelId)]
            ELSE [o EXCEPT !.kind = "NoMessage",
                           !.d.bucket = [i \in DOMAIN o.d.bucket \cup {channelId} |->
                                           IF i = channelId
                                           THEN DCat(BucketGet(o.d.bucket, channelId), o.data)
                                           ELSE o.d.bucket[i]]]

\* ChannelDemuxer.next that hands every frame on as it is read
ChannelDemuxer_handle_eager(o) ==
    IF o.kind # "frame" THEN o ELSE [o EXCEPT !.kind = "message"]

\* ChannelDemuxer.next with one buffer for all channels
ChannelDemuxer_handle_shared(o) ==
    IF o.kind # "frame" THEN o
    ELSE IF o.meta[1].datatype \in STREAMABLE_TYPES THEN [o EXCEPT !.kind = "message"]
    ELSE IF o.complete
         THEN [o EXCEPT !.kind = "message",
                        !.data = DCat(BucketGet(o.d.bucket, 0), o.data),
                        !.d.bucket = BucketPop(o.d.bucket, 0)]
         ELSE [o EXCEPT !.kind = "NoMessage",
                        !.d.bucket = (0 :> DCat(BucketGet(o.d.bucket, 0), o.data))]

\* ChannelDemuxer.next applied to one outcome of FrameReader.next: kind
\* "message" is (data, meta), "NoMessage" is (None, None)
ChannelDemuxer_handle(o) ==
    IF o.kind # "frame" THEN o
    ELSE IF o.meta[1].datatype \in STREAMABLE_TYPES THEN [o EXCEPT !.kind = "message"]
    ELSE LET channelId == o.meta[1].channelId
         IN IF o.complete
            THEN [o EXCEPT !.kind = "message",
                           !.data = DCat(BucketGet(o.d.bucket, channelId), o.data),
                           !.d.bucket = BucketPop(o.d.bucket, channelId)]
            ELSE [o EXCEPT !.kind = "NoMessage",
                           !.d.bucket = [i \in DOMAIN o.d.bucket \cup {channelId} |->
                                           IF i = channelId
                                           THEN DCat(BucketGet(o.d.bucket, channelId), o.data)
                                           ELSE o.d.bucket[i]]]

\* ChannelDemuxer.next
ChannelDemuxer_next(d) == { ChannelDemuxer_handle(o) : o \in FrameReader_next(d) }

----------------------------------------------------------------------------
(* class Decoder *)

\* stream_factory.getStream(streamId).timestamp; a stream starts at 0
StreamTimestamp(streams, streamId) ==
    IF streamId \in DOMAIN streams THEN streams[streamId] ELSE 0

\* Decoder.next applied to one outcome of ChannelDemuxer.next
Decoder_handle(o) ==
    IF o.kind # "message" THEN o
    ELSE LET meta == o.meta[1]
             t == StreamTimestamp(o.d.streams, meta.streamId) + meta.timestamp
         IN [o EXCEPT !.d.streams = [i \in DOMAIN o.d.streams \cup {meta.streamId} |->
                                        IF i = meta.streamId THEN t ELSE o.d.streams[i]]]

\* Decoder.next
Decoder_next(d) == { Decoder_handle(o) : o \in ChannelDemuxer_next(d) }

\* the arguments of dispatcher.dispatchMessage for a "message" outcome
Dispatch(o) ==
    [streamId |-> o.meta[1].streamId, datatype |-> o.meta[1].datatype,
     timestamp |-> o.d.streams[o.meta[1].streamId], data |-> o.data,
     channelId |-> o.ch]

----------------------------------------------------------------------------
(* class ChannelMuxer.  A channel object is named by its channelId. *)

\* ChannelMuxer.__init__ and Encoder.__init__; body and last are the message
\* bodies stored with the channels and the headers last written for them, and
\* msgOn names the message each channel was last given
ChannelMuxer_init ==
    [channels |-> << >>, frameSize |-> FRAME_SIZE,
     minChannelId |-> MIN_CHANNEL_ID, maxChannels |-> MAX_CHANNELS - MIN_CHANNEL_ID,
     availableChannels |-> [i \in 1..(MAX_CHANNELS - MIN_CHANNEL_ID) |-> MIN_CHANNEL_ID + i - 1],
     activeChannels |-> << >>, activeChannelsIndex |-> << >>, channelsInUse |-> 0,
     pending |-> << >>, body |-> << >>, last |-> << >>, msgOn |-> << >>]

\* dict[k] = v and dict.pop(k)
DictSet(dict, k, v) == (k :> v) @@ dict
DictPop(dict, k) == [i \in DOMAIN dict \ {k} |-> dict[i]] @@ << >>

\* del list[idx], idx counted from 0
ListDel(l, idx) == SubSeq(l, 1, idx) \o SubSeq(l, idx + 2, Len(l))

\* ChannelMuxer.aquireChannel: [err, e, c], c the channel or None
ChannelMuxer_aquireChannel(e) ==
    IF e.availableChannels = << >> THEN [err |-> "ok", e |-> e, c |-> None]
    ELSE LET channelId == Head(e.availableChannels)
             e1 == [e EXCEPT !.availableChannels = Tail(@),
                             !.channelsInUse = @ + 1]
             e2 == Codec_getChannel(e1, channelId).d
         IN [err |-> "ok",
             e |-> [e2 EXCEPT
                      !.activeChannels = Append(@, channelId),
                      !.activeChannelsIndex =
                          DictSet(@, channelId, Len(e2.activeChannels))],
             c |-> Some(channelId)]

\* ChannelMuxer.releaseChannel that leaves channelsInUse as it is
ChannelMuxer_releaseChannel_uncounted(e, channelId) ==
    LET g == Codec_getChannel(e, channelId)
    IN IF g.err # "ok" THEN [err |-> g.err, e |-> e]
       ELSE IF channelId \notin DOMAIN g.d.activeChannelsIndex
       THEN [err |-> "EncodeError", e |-> g.d]
       ELSE LET idx == g.d.activeChannelsIndex[channelId]
                e1 == [g.d EXCEPT !.activeChannelsIndex = DictPop(@, channelId)]
            IN IF idx >= Len(e1.activeChannels)
               THEN [err |-> "IndexError", e |-> e1]
               ELSE [err |-> "ok",
                     e |-> [e1 EXCEPT
                              !.activeChannels = ListDel(@, idx),
                              !.availableChannels = << channelId >> \o @]]

\* ChannelMuxer.releaseChannel: [err, e]
ChannelMuxer_releaseChannel(e, channelId) ==
    LET g == Codec_getChannel(e, channelId)
    IN IF g.err # "ok" THEN [err |-> g.err, e |-> e]
       ELSE IF channelId \notin DOMAIN g.d.activeChannelsIndex
       THEN [err |-> "EncodeError", e |-> g.d]
       ELSE LET idx == g.d.activeChannelsIndex[channelId]
                e1 == [g.d EXCEPT !.activeChannelsIndex = DictPop(@, channelId)]
            IN IF idx >= Len(e1.activeChannels)
               THEN [err |-> "IndexError", e |-> e1]
               ELSE [err |-> "ok",
                     e |-> [e1 EXCEPT
                              !.activeChannels = ListDel(@, idx),
                              !.availableChannels = << channelId >> \o @,
                              !.channelsInUse = @ - 1]]

\* ChannelMuxer.isFull that counts the reserved ids as allocatable
ChannelMuxer_isFull_allIds(e) == e.channelsInUse = MAX_CHANNELS

\* ChannelMuxer.isFull
ChannelMuxer_isFull(e) == e.channelsInUse = e.maxChannels

\* a message as handed to send: data is its body
Message(m, L, datatype, streamId, timestamp) ==
    [m |-> m, data |-> Body(m, L), datatype |-> datatype, streamId |-> streamId,
     timestamp |-> timestamp]

\* ChannelMuxer.send: [err, e]
ChannelMuxer_send(e, msg) ==
    LET a == ChannelMuxer_aquireChannel(e)
    IN IF a.c = None THEN [err |-> "EncodeError", e |-> a.e]
       ELSE LET channelId == a.c[1]
                h == Header(channelId, msg.timestamp, msg.datatype, DLen(msg.data),
                            msg.streamId, FALSE)
                sh == Channel_setHeader(a.e.channels[channelId], h)
            IN [err |-> sh.err,
                e |-> [a.e EXCEPT
                         !.channels[channelId] = sh.c,
                         !.body = DictSet(@, channelId, msg.data),
                         !.msgOn = DictSet(@, channelId, msg.m)]]

\* header.encodeHeader relative to the header last written on the channel:
\* the most compressed of the four forms that mergeHeaders turns back into h
RelativeHeader(prior, h) ==
    IF prior = None THEN h
    ELSE LET p == prior[1]
         IN IF p = h
            THEN WireHeader(3, h.channelId, Absent, Absent, Absent, Absent)
            ELSE IF p.datatype = h.datatype /\ p.bodyLength = h.bodyLength
                    /\ p.streamId = h.streamId /\ h.timestamp >= p.timestamp
            THEN WireHeader(2, h.channelId, h.timestamp - p.timestamp, Absent, Absent, Absent)
            ELSE IF p.streamId = h.streamId
            THEN WireHeader(1, h.channelId, h.timestamp, h.datatype, h.bodyLength, Absent)
            ELSE h

\* ChannelMuxer.writeHeader: [err, e, out]
ChannelMuxer_writeHeader(e, channelId) ==
    LET c == e.channels[channelId]
    IN IF c.header = None THEN [err |-> "HeaderError", e |-> e, out |-> << >>]
       ELSE LET prior == IF channelId \in DOMAIN e.last THEN Some(e.last[channelId])
                         ELSE None
            IN [err |-> "ok",
                e |-> [e EXCEPT !.last = DictSet(@, channelId, c.header[1])],
                out |-> encodeHeader(RelativeHeader(prior, c.header[1]))]

\* Channel.writeFrame, the mirror of readFrame: the outcomes [err, c, data, body]
Channel_writeFrame(c, body) ==
    LET l == Min3(c.frameRemaining, c.frameSize, c.bodyRemaining[1])
    IN { IF r.err # "ok"
         THEN [err |-> r.err, c |-> c, data |-> << >>, body |-> body]
         ELSE [err |-> "ok",
               c |-> Channel_adjustFrameRemaining(
                        [c EXCEPT !.bytes = c.bytes + l,
                                  !.bodyRemaining = Some(c.bodyRemaining[1] - l)], l),
               data |-> r.data, body |-> DDrop(body, r.pos)]
         : r \in StreamRead(body, 0, l) }

\* one written chunk, for the record: its message, channel, header form and
\* body bytes
Chunk(m, channelId, h, data) ==
    [m |-> m, ch |-> channelId, fmt |-> Format(h), data |-> data]

\* The body of the loop of ChannelMuxer.next at position i of activeChannels,
\* s = [err, e, out, log] being the encoder, the bytes written and the chunks
\* written so far: the outcomes, of the same shape.  Nothing is left to do
\* once an exception is out or the position is past the end of the list, which
\* is the list releaseChannel deletes from.
ChannelMuxer_visit(s, i) ==
    IF s.err # "ok" \/ i >= Len(s.e.activeChannels) THEN {s}
    ELSE LET channelId == s.e.activeChannels[i + 1]
             wh == ChannelMuxer_writeHeader(s.e, channelId)
         IN IF wh.err # "ok" THEN {[s EXCEPT !.err = wh.err]}
            ELSE {
              IF wf.err # "ok"
              THEN [err |-> wf.err, e |-> wh.e, out |-> DCat(s.out, wh.out), log |-> s.log]
              ELSE LET s1 == [err |-> "ok",
                              e |-> [wh.e EXCEPT !.channels[channelId] = wf.c,
                                                 !.body[channelId] = wf.body],
                              out |-> DCat(DCat(s.out, wh.out), wf.data),
                              log |-> Append(s.log, Chunk(s.e.msgOn[channelId], channelId,
                                                          wh.out[1][1].h, wf.data))]
                   IN IF Channel_complete(wf.c)
                      THEN LET r == ChannelMuxer_releaseChannel(s1.e, channelId)
                           IN [s1 EXCEPT !.err = r.err, !.e = r.e]
                      ELSE s1
              : wf \in Channel_writeFrame(wh.e.channels[channelId], wh.e.body[channelId]) }

\* the loop of ChannelMuxer.next: positions i, i + 1, ..., i + n - 1 in turn,
\* from each of the outcomes S (the run is cut in halves)
RECURSIVE ChannelMuxer_iter(_, _, _)
ChannelMuxer_iter(S, i, n) ==
    IF n = 0 THEN S
    ELSE IF n = 1 THEN UNION {ChannelMuxer_visit(s, i) : s \in S}
    ELSE LET half == ChannelMuxer_iter(S, i, n \div 2)
         IN IF half = {} THEN {}
            ELSE ChannelMuxer_iter(half, i + (n \div 2), n - (n \div 2))

\* ChannelMuxer.next: the list only shrinks, so its length bounds the positions
ChannelMuxer_next(e) ==
    ChannelMuxer_iter({[err |-> "ok", e |-> e, out |-> << >>, log |-> << >>]}, 0,
                      Len(e.activeChannels))

----------------------------------------------------------------------------
(* class Encoder *)

\* Encoder.send: [err, e]
Encoder_send(e, msg) ==
    IF ChannelMuxer_isFull(e)
    THEN [err |-> "ok", e |-> [e EXCEPT !.pending = Append(@, msg)]]
    ELSE ChannelMuxer_send(e, msg)

\* Encoder.next: the outcomes [err, e, out, log].  The call that drains pending
\* names the class and passes the popped tuple alone, so it raises TypeError
\* with the tuple already popped.
Encoder_next(e) ==
    { IF r.err # "ok" THEN r
      ELSE IF r.e.pending = << >>
      THEN [r EXCEPT !.err = IF r.e.activeChannels = << >> THEN "StopIteration" ELSE "ok"]
      ELSE IF ChannelMuxer_isFull(r.e) THEN r
      ELSE [r EXCEPT !.err = "TypeError", !.e.pending = Tail(@)]
      : r \in ChannelMuxer_next(e) }

----------------------------------------------------------------------------
(* rtmpy/rtmp/__init__.py: class Channel and class ChannelManager.  Data is
   known by its length; the channel's manager is any IChannelManager, known by
   the channelComplete calls it gets. *)

DEFAULT_FRAME_SIZE == 128

\* Channel(): the class has no __init__, the attributes come with reset()
LegacyChannel_new ==
    [header |-> None, frameRemaining |-> 0, frames |-> 0, bytes |-> 0,
     buffer |-> None, observer |-> None, bodyRemaining |-> None]

\* Channel.reset
LegacyChannel_reset(c, frameSize) ==
    [c EXCEPT !.frameRemaining = frameSize, !.frames = 0, !.bytes = 0,
              !.buffer = None, !.observer = None, !.header = None,
              !.bodyRemaining = None]

\* BufferingChannelObserver.__init__: buffer holds the bytes written to it
BufferingChannelObserver == [buffer |-> 0]

\* the methods a BufferingChannelObserver has
ObserverMethods == {"dataReceived", "bodyComplete", "headerChanged"}

\* Channel.registerObserver
LegacyChannel_registerObserver(c, observer) ==
    IF c.buffer = None THEN [c EXCEPT !.observer = Some(observer)]
    ELSE [c EXCEPT !.observer = Some([observer EXCEPT !.buffer = @ + c.buffer[1]]),
                   !.buffer = None]

\* Channel.setHeader: [err, c]
LegacyChannel_setHeader(c, header) ==
    IF c.header # None /\ header.channelId # c.header[1].channelId
    THEN [err |-> "RuntimeError", c |-> c]
    ELSE IF c.header = None /\ header.relative
    THEN [err |-> "ChannelError", c |-> c]
    ELSE LET h == IF ~header.relative THEN header ELSE mergeHeaders(c.header[1], header)
         IN [err |-> "ok",
             c |-> [c EXCEPT !.header = Some(h), !.bodyRemaining = Some(h.bodyLength - c.bytes)]]

\* the while loop of Channel._adjustFrameRemaining: [frames, l]
RECURSIVE LegacyChannel_countFrames(_, _, _)
LegacyChannel_countFrames(n, l, size) ==
    IF l >= size THEN LegacyChannel_countFrames(n + 1, l - size, size)
    ELSE [frames |-> n, l |-> l]

\* Channel._adjustFrameRemaining
LegacyChannel_adjustFrameRemaining(c, l, size) ==
    IF l < size THEN [c EXCEPT !.frameRemaining = @ - l]
    ELSE LET w == LegacyChannel_countFrames(c.frames, l, size)
             more == c.frameRemaining # size /\ w.l + c.frameRemaining >= size
             l2 == IF more THEN w.l - size ELSE w.l
         IN [c EXCEPT !.frames = IF more THEN w.frames + 1 ELSE w.frames,
                      !.frameRemaining = IF l2 > 0 THEN l2 ELSE size]

\* Channel._write: [err, c]; the observer is asked for "dataReceieved"
LegacyChannel_write(c, l) ==
    IF c.observer # None
    THEN IF "dataReceieved" \in ObserverMethods
         THEN [err |-> "ok", c |-> [c EXCEPT !.observer[1].buffer = @ + l]]
         ELSE [err |-> "AttributeError", c |-> c]
    ELSE [err |-> "ok",
          c |-> [c EXCEPT !.buffer = Some((IF @ = None THEN 0 ELSE @[1]) + l)]]

\* Channel.dataReceived for l bytes: [err, c, complete]; complete says that
\* manager.channelComplete was called
LegacyChannel_dataReceived(c, l, size) ==
    IF c.header = None THEN [err |-> "RuntimeError", c |-> c, complete |-> FALSE]
    ELSE IF c.bodyRemaining[1] - l < 0
    THEN [err |-> "RuntimeError", c |-> c, complete |-> FALSE]
    ELSE LET w == LegacyChannel_write(c, l)
         IN IF w.err # "ok" THEN [err |-> w.err, c |-> w.c, complete |-> FALSE]
            ELSE LET c1 == [w.c EXCEPT !.bytes = @ + l,
                                       !.bodyRemaining = Some(@[1] - l)]
                     c2 == LegacyChannel_adjustFrameRemaining(c1, l, size)
                 IN [err |-> "ok", c |-> c2, complete |-> (c2.bodyRemaining = Some(0))]

\* ChannelManager.__init__; made counts the Channel objects created, which
\* names them
ChannelManager_init == [channels |-> << >>, frameSize |-> DEFAULT_FRAME_SIZE, made |-> 0]

\* the test `MAX_CHANNELS < channelId < 0` of ChannelManager.getChannel
ChannelManager_outOfRange(channelId) == MAX_CHANNELS < channelId /\ channelId < 0

\* ChannelManager.getChannel: [err, m, ret]
ChannelManager_getChannel(m, channelId) ==
    IF ChannelManager_outOfRange(channelId)
    THEN [err |-> "IndexError", m |-> m, ret |-> Absent]
    ELSE IF channelId \in DOMAIN m.channels
    THEN [err |-> "ok", m |-> m, ret |-> m.channels[channelId]]
    ELSE [err |-> "ok",
          m |-> [m EXCEPT !.channels = (channelId :> (m.made + 1)) @@ @,
                          !.made = @ + 1],
          ret |-> m.made + 1]

----------------------------------------------------------------------------
(* rtmpy/rtmp/stream.py: class BaseStream and class BufferingChannelObserver *)

\* BaseStream.__init__
BaseStream_init == [timestamp |-> 0]

\* a Python bool used as a number
AsInt(b) == IF b THEN 1 ELSE 0

\* BaseStream.setTimestamp(datatype, time, relative=True)
BaseStream_setTimestamp(s, datatype, time, relative) ==
    IF relative THEN [s EXCEPT !.timestamp = @ + time] ELSE [s EXCEPT !.timestamp = time]

\* BufferingChannelObserver.headerChanged: the call passes header.timestamp
\* and header.relative, which setTimestamp takes as datatype and time
BufferingChannelObserver_headerChanged(s, header) ==
    IF header.timestamp # Absent
    THEN BaseStream_setTimestamp(s, header.timestamp, AsInt(header.relative), TRUE)
    ELSE s

----------------------------------------------------------------------------
(* The decoder driven by a remote peer *)

\* Bounds of the model
MaxChunks == 2      \* chunks an arbitrary peer writes
MaxResize == 1      \* Codec.setFrameSize calls

\* Inputs
PeerChannels == {3}
BodyLengths == {100, 300}
ContChunks == {44, 128}
Timestamps == {10}
StreamIds == {1}
INVOKE == 20
FrameSizes == {64, 256}
PushSizes == {5, 12}

NoOutcome(op) ==
    [op |-> op, kind |-> "none", ch |-> Absent, len |-> 0, complete |-> FALSE,
     body0 |-> None, meta |-> None]

StepOutcome(o) ==
    [op |-> "next", kind |-> o.kind, ch |-> o.ch, len |-> DLen(o.data),
     complete |-> o.complete, body0 |-> o.body0, meta |-> o.meta]

Init ==
    /\ dec = Codec_init
    /\ net = << >>
    /\ dout = NoOutcome("init")
    /\ dispatched = << >>
    /\ frames = << >>
    /\ peer = [next |-> 1, whole |-> FALSE, cur |-> << >>, used |-> {}, chunks |-> << >>,
               fmt |-> << >>]
    /\ resized = [n |-> 0, chans |-> {}]
    /\ enc = ChannelMuxer_init
    /\ eout = [op |-> "init", kind |-> "none", calls |-> 0, pool |-> 0]
    /\ sent = << >>
    /\ wire = << >>
    /\ chan = [c |-> LegacyChannel_reset(LegacyChannel_new, DEFAULT_FRAME_SIZE),
               completed |-> 0]
    /\ mgr = ChannelManager_init
    /\ strm = BaseStream_init
    /\ lout = [op |-> "init", kind |-> "none", arg |-> Absent, ret |-> Absent, calls |-> 0]

\* The headers an arbitrary peer may write, each with the body bytes that follow
PeerHeaders ==
    { WireHeader(fmt, ch, t, INVOKE, L, sid) :
        fmt \in 0..3, ch \in PeerChannels, t \in Timestamps, L \in BodyLengths,
        sid \in StreamIds }

ChunkSizes(h) ==
    IF h.bodyLength # Absent THEN {Min2(FRAME_SIZE, h.bodyLength)} ELSE ContChunks

\* the peer writes one chunk: a header and n bytes of body
PeerWrite(h, n) ==
    /\ net = << >>
    /\ peer.next <= MaxChunks
    /\ net' = DCat(encodeHeader(h), Body(peer.next, n))
    /\ peer' = [peer EXCEPT !.next = @ + 1, !.whole = TRUE]
    /\ UNCHANGED <<dec, dout, dispatched, frames, resized>>
    /\ UNCHANGED encVars
    /\ UNCHANGED legVars

\* the transport delivers the next k bytes: FrameReader.send.  A chunk arrives
\* whole or in two pieces.
Push(k) ==
    /\ net # << >>
    /\ k = DLen(net) \/ (peer.whole /\ k < DLen(net))
    /\ dec' = FrameReader_send(dec, DTake(net, k))
    /\ net' = DDrop(net, k)
    /\ peer' = [peer EXCEPT !.whole = FALSE]
    /\ dout' = NoOutcome("send")
    /\ UNCHANGED <<dispatched, frames, resized>>
    /\ UNCHANGED encVars
    /\ UNCHANGED legVars

\* the driver calls Decoder.next; after IOError or StopIteration it waits for
\* more bytes before it calls again
Step ==
    \E o \in Decoder_next(dec) :
        /\ dout.kind \notin {"IOError", "StopIteration"}
        /\ dec' = o.d
        /\ dout' = StepOutcome(o)
        /\ dispatched' = IF o.kind = "message" THEN Append(dispatched, Dispatch(o))
                         ELSE dispatched
        /\ frames' = IF o.kind \in {"message", "NoMessage"}
                     THEN Append(frames, [ch |-> o.ch, data |-> o.frame,
                                          complete |-> o.complete])
                     ELSE frames
        /\ UNCHANGED <<net, peer, resized>>
        /\ UNCHANGED encVars
        /\ UNCHANGED legVars

\* the driver calls Codec.setFrameSize
SetFrameSize(size) ==
    /\ resized.n < MaxResize
    /\ dec' = Codec_setFrameSize(dec, size)
    /\ dout' = NoOutcome("setFrameSize")
    /\ resized' = [n |-> resized.n + 1, chans |-> DOMAIN dec.channels]
    /\ UNCHANGED <<net, dispatched, frames, peer>>
    /\ UNCHANGED encVars
    /\ UNCHANGED legVars

DecNext ==
    \/ \E h \in PeerHeaders : \E n \in ChunkSizes(h) : PeerWrite(h, n)
    \/ \E k \in PushSizes \cup {DLen(net)} : Push(k)
    \/ Step
    \/ \E size \in FrameSizes : SetFrameSize(size)

SpecDec == Init /\ [][DecNext]_vars

----------------------------------------------------------------------------
(* The decoder driven by a peer that keeps to the protocol: a message starts
   with a format-0 header (or format-1 on a channel used before), goes on with
   format-3 headers, and is cut into frames of the frame size; the chunks of
   different channels interleave freely. *)

MaxMsgs == 2        \* messages the peer starts

WireChannels == {3, 4}
WireLengths == {0, 200, 300}
VIDEO_DATA == 8
WireTypes == {INVOKE, VIDEO_DATA}

\* bytes off+1 .. off+n of the body of message m
BodySlice(m, off, n) == IF n = 0 THEN << >> ELSE << <<BodySrc(m), off, off + n>> >>

PeerChunk(m, ch, type, L, off, n) ==
    [m |-> m, ch |-> ch, type |-> type, len |-> L, data |-> BodySlice(m, off, n),
     final |-> (off + n = L)]

\* the peer starts a message on an idle channel and writes its first chunk
PeerStart(ch, L, type, fmt) ==
    LET m == peer.next
        n == Min2(dec.frameSize, L)
        h == WireHeader(fmt, ch, 10, type, L, 1)
    IN /\ net = << >>
       /\ dec.buf = << >>
       /\ peer.next <= MaxMsgs
       /\ ch \notin DOMAIN peer.cur
       /\ fmt = 0 \/ ch \in peer.used
       /\ net' = DCat(encodeHeader(h), BodySlice(m, 0, n))
       /\ peer' = [peer EXCEPT
                     !.next = m + 1,
                     !.whole = TRUE,
                     !.used = @ \cup {ch},
                     !.fmt = Append(@, fmt),
                     !.chunks = Append(@, PeerChunk(m, ch, type, L, 0, n)),
                     !.cur = IF n = L THEN @
                             ELSE @ @@ (ch :> [m |-> m, len |-> L, off |-> n, type |-> type])]
       /\ UNCHANGED <<dec, dout, dispatched, frames, resized>>
       /\ UNCHANGED encVars
       /\ UNCHANGED legVars

\* the peer writes the next chunk of the message in progress on a channel
PeerCont(ch) ==
    /\ net = << >>
    /\ dec.buf = << >>
    /\ ch \in DOMAIN peer.cur
    /\ LET c == peer.cur[ch]
           n == Min2(dec.frameSize, c.len - c.off)
           h == WireHeader(3, ch, Absent, Absent, Absent, Absent)
       IN /\ net' = DCat(encodeHeader(h), BodySlice(c.m, c.off, n))
          /\ peer' = [peer EXCEPT
                        !.whole = TRUE,
                        !.chunks = Append(@, PeerChunk(c.m, ch, c.type, c.len, c.off, n)),
                        !.cur = IF c.off + n = c.len
                                THEN [i \in DOMAIN @ \ {ch} |-> @[i]]
                                ELSE [@ EXCEPT ![ch].off = c.off + n]]
    /\ UNCHANGED <<dec, dout, dispatched, frames, resized>>
    /\ UNCHANGED encVars
    /\ UNCHANGED legVars

WireNext ==
    \/ \E ch \in WireChannels, L \in WireLengths, type \in WireTypes, fmt \in {0, 1} :
            PeerStart(ch, L, type, fmt)
    \/ \E ch \in WireChannels : PeerCont(ch)
    \/ \E k \in PushSizes \cup {DLen(net)} : Push(k)
    \/ Step

SpecWire == Init /\ [][WireNext]_vars

\* what the dispatcher is to receive for the chunks chs, in order: a chunk of
\* a streamable message as it is, a whole body at the last chunk of another
RECURSIVE Expected(_)
Expected(chs) ==
    IF chs = << >> THEN << >>
    ELSE LET c == chs[Len(chs)]
             before == Expected(SubSeq(chs, 1, Len(chs) - 1))
         IN IF c.type \in STREAMABLE_TYPES
            THEN Append(before, [channelId |-> c.ch, datatype |-> c.type, data |-> c.data])
            ELSE IF c.final
            THEN Append(before, [channelId |-> c.ch, datatype |-> c.type,
                                 data |-> Body(c.m, c.len)])
            ELSE before

Delivered ==
    [i \in 1..Len(dispatched) |->
        [channelId |-> dispatched[i].channelId, datatype |-> dispatched[i].datatype,
         data |-> dispatched[i].data]]

----------------------------------------------------------------------------
(* The encoder driven by an application, its output fed to the decoder *)

MaxCalls == 5
MaxPoolCalls == 4

MsgLengths == {0, 50, 300}
ReleaseIds == {3, 4, 62, 70}
BurstLengths == {50, 300}

decVars == <<dec, dout, dispatched, frames, peer, resized>>

\* the record of a message handed to send: channelId 0 while it waits in pending
Sent(e, msg) ==
    LET on == {c \in DOMAIN e.msgOn : e.msgOn[c] = msg.m}
    IN [m |-> msg.m, datatype |-> msg.datatype, streamId |-> msg.streamId,
        data |-> msg.data,
        channelId |-> IF on = {} THEN 0 ELSE CHOOSE c \in on : TRUE]

\* the application calls Encoder.send with a new message
DoSend(L, budget) ==
    LET msg == Message(Len(sent) + 1, L, INVOKE, 1, 10)
        r == Encoder_send(enc, msg)
    IN /\ enc' = r.e
       /\ sent' = Append(sent, Sent(r.e, msg))
       /\ eout' = [eout EXCEPT !.op = "send", !.kind = r.err, ![budget] = @ + 1]
       /\ UNCHANGED <<net, wire>>

\* the application calls Encoder.next; what it wrote goes to the transport
DoNext(budget) ==
    \E r \in Encoder_next(enc) :
        /\ enc' = r.e
        /\ net' = DCat(net, r.out)
        /\ wire' = wire \o r.log
        /\ eout' = [eout EXCEPT !.op = "next", !.kind = r.err, ![budget] = @ + 1]
        /\ UNCHANGED sent

EncSend(L) ==
    /\ eout.calls < MaxCalls
    /\ DoSend(L, "calls")
    /\ UNCHANGED decVars
    /\ UNCHANGED legVars

EncNext ==
    /\ eout.calls < MaxCalls
    /\ DoNext("calls")
    /\ UNCHANGED decVars
    /\ UNCHANGED legVars

RTNext ==
    \/ \E L \in MsgLengths : EncSend(L)
    \/ EncNext
    \/ Push(DLen(net))
    \/ Step

SpecRT == Init /\ [][RTNext]_vars

\* the application fills the pool but for one channel: sends of the messages
\* lo..hi, each of L bytes, in order, stopping at the first that raises;
\* [err, e]
RECURSIVE SendBurst(_, _, _, _)
SendBurst(e, lo, hi, L) ==
    IF lo > hi THEN [err |-> "ok", e |-> e]
    ELSE IF lo = hi THEN Encoder_send(e, Message(lo, L, INVOKE, 1, 10))
    ELSE LET mid == (lo + hi) \div 2
             r == SendBurst(e, lo, mid, L)
         IN IF r.err # "ok" THEN r ELSE SendBurst(r.e, mid + 1, hi, L)

Burst(L) ==
    LET e == SendBurst(enc, 1, enc.maxChannels - 1, L).e
    IN /\ enc = ChannelMuxer_init
       /\ sent = << >>
       /\ enc' = e
       /\ sent' = [m \in 1..(enc.maxChannels - 1) |->
                      Sent(e, Message(m, L, INVOKE, 1, 10))]
       /\ eout' = [eout EXCEPT !.op = "burst", !.kind = "ok"]
       /\ UNCHANGED <<net, wire>>
       /\ UNCHANGED decVars
       /\ UNCHANGED legVars

\* the application calls ChannelMuxer.aquireChannel
Acquire ==
    LET r == ChannelMuxer_aquireChannel(enc)
    IN /\ eout.pool < MaxPoolCalls
       /\ enc' = r.e
       /\ eout' = [eout EXCEPT !.op = "aquireChannel",
                               !.kind = IF r.c = None THEN "None" ELSE "ok",
                               !.pool = @ + 1]
       /\ UNCHANGED <<net, sent, wire>>
       /\ UNCHANGED decVars
       /\ UNCHANGED legVars

\* the application calls ChannelMuxer.releaseChannel
Release(channelId) ==
    LET r == ChannelMuxer_releaseChannel(enc, channelId)
    IN /\ eout.pool < MaxPoolCalls
       /\ enc' = r.e
       /\ eout' = [eout EXCEPT !.op = "releaseChannel", !.kind = r.err, !.pool = @ + 1]
       /\ UNCHANGED <<net, sent, wire>>
       /\ UNCHANGED decVars
       /\ UNCHANGED legVars

\* the application calls ChannelMuxer.send, full or not
MuxSend(L) ==
    LET msg == Message(Len(sent) + 1, L, INVOKE, 1, 10)
        r == ChannelMuxer_send(enc, msg)
    IN /\ eout.pool < MaxPoolCalls
       /\ enc' = r.e
       /\ sent' = IF r.err = "ok" THEN Append(sent, Sent(r.e, msg)) ELSE sent
       /\ eout' = [eout EXCEPT !.op = "ChannelMuxer.send", !.kind = r.err, !.pool = @ + 1]
       /\ UNCHANGED <<net, wire>>
       /\ UNCHANGED decVars
       /\ UNCHANGED legVars

PoolSend(L) ==
    /\ eout.pool < MaxPoolCalls
    /\ DoSend(L, "pool")
    /\ UNCHANGED decVars
    /\ UNCHANGED legVars

PoolNext ==
    /\ eout.pool < MaxPoolCalls
    /\ DoNext("pool")
    /\ UNCHANGED decVars
    /\ UNCHANGED legVars

PoolStep ==
    \/ \E L \in BurstLengths : Burst(L)
    \/ Acquire
    \/ \E c \in ReleaseIds : Release(c)
    \/ \E L \in MsgLengths : MuxSend(L)
    \/ \E L \in MsgLengths : PoolSend(L)
    \/ PoolNext

SpecPool == Init /\ [][PoolStep]_vars

----------------------------------------------------------------------------
(* Properties of the decoder *)

\* C3: the number of frames read is never more than the number of chunks
\* written, and what was dispatched after reading k frames is what the first k
\* chunks hold: every message that is not streamable once, with its whole
\* body, at the frame that is its last chunk.
C3_Interleaving ==
    /\ Len(frames) <= Len(peer.chunks)
    /\ Delivered = Expected(SubSeq(peer.chunks, 1, Len(frames)))

\* two messages that are not streamable, interleaved on channels 3 and 4, the
\* one of 200 bytes dispatched before the one of 300 bytes that started first
C3_Witness ==
    /\ Len(dispatched) = 2
    /\ Len(peer.chunks) = 5
    /\ peer.chunks[1].ch # peer.chunks[2].ch
    /\ peer.chunks[1].len = 300
    /\ dispatched[1].data = Body(peer.chunks[2].m, 200)
    /\ dispatched[2].data = Body(peer.chunks[1].m, 300)
    /\ dispatched[1].datatype = INVOKE
    /\ dispatched[2].datatype = INVOKE

\* the last operation was a step that read a frame
ReadFrame == dout.op = "next" /\ dout.kind \in {"message", "NoMessage"}

\* the header a step would decode next, and the channel it names
Front == decodeHeader(dec.buf, dec.pos)
FrontChannel == Front.h.channelId
HasHeader(d, ch) == ch \in DOMAIN d.channels /\ d.channels[ch].header # None

C6_RelativeOnFresh ==
    [][ ( /\ Step
          /\ Front.err = "ok" /\ Front.h.relative
          /\ ~HasHeader(dec, FrontChannel) )
        => /\ dout'.kind = "HeaderError"
           /\ dispatched' = dispatched
           /\ dec'.channels[FrontChannel] =
                 IF FrontChannel \in DOMAIN dec.channels
                 THEN dec.channels[FrontChannel]
                 ELSE Channel(FrontChannel, dec.frameSize)
           /\ dec'.channels[FrontChannel].header = None ]_vars

\* a format-3 header for channel 3 was the first header decoded for it
C6_Witness ==
    /\ dout.kind = "HeaderError"
    /\ dout.ch = 3
    /\ dec.channels[3].header = None
    /\ dispatched = << >>

\* C7: every channel with a header has 0 <= bytes <= header.bodyLength and
\* bodyRemaining >= 0.
C7_BodyBound ==
    \A ch \in DOMAIN dec.channels :
        LET c == dec.channels[ch]
        IN c.header # None
            => /\ 0 <= c.bytes
               /\ c.bytes <= c.header[1].bodyLength
               /\ (c.bodyRemaining # None => c.bodyRemaining[1] >= 0)

\* C8: every channel has 0 < frameRemaining <= frameSize.
C8_FrameCountdown ==
    \A ch \in DOMAIN dec.channels :
        /\ 0 < dec.channels[ch].frameRemaining
        /\ dec.channels[ch].frameRemaining <= dec.frameSize

\* C9: after setFrameSize(n), every frame read on a channel that existed at
\* the call has min(n, bodyRemaining) bytes.
C9_FrameSizeTakesEffect ==
    ( /\ ReadFrame
      /\ resized.n > 0
      /\ dout.ch \in resized.chans
      /\ dout.body0[1] >= 0 )
        => dout.len = Min2(dec.frameSize, dout.body0[1])

\* C10: a step that ends with IOError leaves the read position and every
\* channel as they were.
C10_NeedMoreNoEffect ==
    [][ (Step /\ dout'.kind = "IOError")
        => /\ dec'.pos = dec.pos
           /\ dec'.channels = dec.channels ]_vars

----------------------------------------------------------------------------
(* Properties of the encoder *)

\* C1: pool conservation.  In every state reachable by aquireChannel,
\* releaseChannel, send and next calls, failing ones included, the active and
\* the available channels together number MAX_CHANNELS - MIN_CHANNEL_ID = 61
\* and the active channels number channelsInUse.
C1_PoolConservation ==
    /\ Len(enc.activeChannels) + Len(enc.availableChannels) = MAX_CHANNELS - MIN_CHANNEL_ID
    /\ Len(enc.activeChannels) + Len(enc.availableChannels) = 61
    /\ Len(enc.activeChannels) = enc.channelsInUse

\* a releaseChannel that failed on a stale index, with channels still active
C1_Witness ==
    /\ eout.op = "releaseChannel"
    /\ eout.kind = "IndexError"
    /\ enc.channelsInUse > 0
    /\ enc.availableChannels # ChannelMuxer_init.availableChannels

\* what a message is to the round trip: its datatype, stream and body
Payload(r) == [datatype |-> r.datatype, streamId |-> r.streamId, data |-> r.data]

\* the payloads of the records of seq that name channel ch, in order
RECURSIVE OnChannel(_, _)
OnChannel(seq, ch) ==
    IF seq = << >> THEN << >>
    ELSE (IF Head(seq).channelId = ch THEN << Payload(Head(seq)) >> ELSE << >>)
         \o OnChannel(Tail(seq), ch)

ChannelsOf(seq) == {seq[i].channelId : i \in DOMAIN seq}

IsPrefix(a, b) == Len(a) <= Len(b) /\ SubSeq(b, 1, Len(a)) = a

\* Encoder.next would raise StopIteration: nothing pending, nothing active
EncoderIdle == enc.pending = << >> /\ enc.activeChannels = << >>

\* the decoder has been fed all that was written and has read all it can
DecoderFed == net = << >> /\ dout.op = "next" /\ dout.kind \in {"IOError", "StopIteration"}

\* C2: round trip.  The decoder dispatches the messages handed to
\* Encoder.send, with the same datatype, stream and body, in send order on
\* each channel, none altered or duplicated; and once the encoder has been
\* pumped until idle and all it wrote has been fed to the decoder, none is
\* missing.
C2_RoundTrip ==
    \A ch \in ChannelsOf(sent) \cup ChannelsOf(dispatched) :
        /\ IsPrefix(OnChannel(dispatched, ch), OnChannel(sent, ch))
        /\ EncoderIdle /\ DecoderFed => OnChannel(dispatched, ch) = OnChannel(sent, ch)

\* the chunks written for message m, in order
ChunksOf(m) == SelectSeq(wire, LAMBDA w : w.m = m)

RECURSIVE Concat(_)
Concat(chunks) ==
    IF chunks = << >> THEN << >> ELSE DCat(Head(chunks).data, Concat(Tail(chunks)))

\* message s has left its channel: the channel is not active, or has another
\* message
Released(s) ==
    /\ s.channelId # 0
    /\ \/ \A i \in DOMAIN enc.activeChannels : enc.activeChannels[i] # s.channelId
       \/ enc.msgOn[s.channelId] # s.m

\* C4: chunk invariance.  With frameSize constant, a message of body length
\* L > 0 has, when its channel is released, been written as ceil(L / frameSize)
\* frames, each but the last of exactly frameSize bytes, which concatenated
\* are the body.  (Messages of length 0, written as one empty frame, are left
\* aside.)
C4_ChunkInvariance ==
    \A i \in DOMAIN sent :
        LET s == sent[i]
            L == DLen(s.data)
            chunks == ChunksOf(s.m)
        IN L > 0 /\ Released(s) =>
              /\ Len(chunks) = (L + enc.frameSize - 1) \div enc.frameSize
              /\ \A k \in 1..(Len(chunks) - 1) : DLen(chunks[k].data) = enc.frameSize
              /\ Concat(chunks) = s.data

\* the last operation on the encoder was a call of next that did not raise
\* (StopIteration, the signal that the encoder is idle, aside)
NextCalled == eout' # eout /\ eout'.op = "next"
NextReturned == NextCalled /\ eout'.kind \in {"ok", "StopIteration"}

\* the chunks a step has added to those written
Written == SubSeq(wire', Len(wire) + 1, Len(wire'))

\* C11: outbound round-robin.  In every step of the muxer each channel that
\* is active at the start of the step writes exactly one chunk, in allocation
\* order, also in steps where channels complete and are released.
C11_RoundRobin ==
    [][ NextReturned
        => /\ Len(wire') >= Len(wire)
           /\ [i \in 1..Len(Written) |-> Written[i].ch] = enc.activeChannels ]_vars

\* C12: no starvation, as far as a state shows it.  With only Encoder.send
\* and Encoder.next called, no call of next raises anything but StopIteration,
\* and when next signals that the encoder is idle every message accepted by
\* send has had its whole body written.
C12_NoStarvation ==
    /\ eout.op = "next" => eout.kind \in {"ok", "StopIteration"}
    /\ (eout.op = "next" /\ eout.kind = "StopIteration")
          => \A i \in DOMAIN sent : Concat(ChunksOf(sent[i].m)) = sent[i].data

\* the last operation on the encoder was a call of Encoder.send
SendCalled == eout' # eout /\ eout'.op = "send"

Active(e) == {e.activeChannels[i] : i \in DOMAIN e.activeChannels}

\* C13: backpressure on saturation.  Encoder.send called while isFull() holds
\* appends the message to the tail of pending and leaves availableChannels,
\* activeChannels, channelsInUse and every channel as they were; called while
\* isFull() does not hold it leaves pending as it was and makes exactly one
\* more channel active.
C13_Backpressure ==
    [][ SendCalled
        => IF ChannelMuxer_isFull(enc)
           THEN /\ Len(enc'.pending) = Len(enc.pending) + 1
                /\ SubSeq(enc'.pending, 1, Len(enc.pending)) = enc.pending
                /\ enc'.pending[Len(enc'.pending)].m = sent'[Len(sent')].m
                /\ enc'.pending[Len(enc'.pending)].data = sent'[Len(sent')].data
                /\ enc'.availableChannels = enc.availableChannels
                /\ enc'.activeChannels = enc.activeChannels
                /\ enc'.channelsInUse = enc.channelsInUse
                /\ enc'.channels = enc.channels
           ELSE /\ enc'.pending = enc.pending
                /\ \E c \in Active(enc') \ Active(enc) :
                      enc'.activeChannels = Append(enc.activeChannels, c) ]_vars

\* message msg is active on a channel of e whose header is the one
\* ChannelMuxer.send makes of it
Activated(e, msg) ==
    \E c \in Active(e) :
        /\ c \in DOMAIN e.msgOn
        /\ e.msgOn[c] = msg.m
        /\ e.channels[c].header =
              Some(Header(c, msg.timestamp, msg.datatype, DLen(msg.data), msg.streamId, FALSE))

\* C14: pending messages are activated intact and in FIFO order.  A call of
\* next that finds pending non-empty, and whose loop over the channels ends
\* without raising, takes messages off the head of pending, in the order
\* they were queued, until pending is empty or no channel is free, and each
\* message taken is active on a channel whose header carries the streamId,
\* datatype, timestamp and body length given to send.
C14_PendingFIFO ==
    [][ ( /\ NextCalled
          /\ enc.pending # << >>
          /\ eout'.kind \in {"ok", "StopIteration", "TypeError"} )
        => \E k \in 0..Len(enc.pending) :
              /\ enc'.pending = SubSeq(enc.pending, k + 1, Len(enc.pending))
              /\ \A i \in 1..k : Activated(enc', enc.pending[i])
              /\ ChannelMuxer_isFull(enc') \/ enc'.pending = << >> ]_vars

\* the chunks read so far, and a step that reads one more
ChunksRead == SubSeq(peer.chunks, 1, Len(frames))
ReadsChunk == Step /\ Len(frames') = Len(frames) + 1 /\ Len(frames') <= Len(peer.chunks)

Reassembled(type) == type \notin STREAMABLE_TYPES

\* the reassembled messages whose final chunk has been read on channel ch, and
\* the reassembled messages dispatched for channel ch, both in order
FinalsOn(ch) == SelectSeq(ChunksRead, LAMBDA c : c.ch = ch /\ c.final /\ Reassembled(c.type))
DispatchedOn(ch) ==
    SelectSeq(dispatched, LAMBDA x : x.channelId = ch /\ Reassembled(x.datatype))

\* C15: inbound ordering.  A reassembled message is dispatched at the step
\* that reads its final chunk and at no other, so messages are dispatched in
\* the order their final chunks are read; and the messages of one channel are
\* dispatched in the order their chunks are on the wire.
C15_InboundOrdering ==
    /\ [][ ReadsChunk
           => LET c == peer.chunks[Len(frames')]
              IN IF Reassembled(c.type) /\ ~c.final THEN dispatched' = dispatched
                 ELSE /\ Len(dispatched') = Len(dispatched) + 1
                      /\ SubSeq(dispatched', 1, Len(dispatched)) = dispatched
                      /\ dispatched'[Len(dispatched')].channelId = c.ch ]_vars
    /\ [](\A ch \in WireChannels :
            /\ Len(DispatchedOn(ch)) = Len(FinalsOn(ch))
            /\ \A i \in 1..Len(FinalsOn(ch)) :
                  DispatchedOn(ch)[i].data = Body(FinalsOn(ch)[i].m, FinalsOn(ch)[i].len))

\* two reassembled messages that followed each other on one channel, the
\* first of several chunks, dispatched in that order
C15_Witness ==
    /\ Len(dispatched) = 2
    /\ dispatched[1].channelId = dispatched[2].channelId
    /\ Reassembled(dispatched[1].datatype)
    /\ Reassembled(dispatched[2].datatype)
    /\ dispatched[1].data = Body(1, 300)
    /\ dispatched[2].data = Body(2, 200)

\* the chunks of message m among the first n chunks the peer wrote
PeerChunksOf(m, n) == SelectSeq(SubSeq(peer.chunks, 1, n), LAMBDA c : c.m = m)

\* C16: streamable passthrough versus reassembly.  A chunk of a streamable
\* message is dispatched by itself at the step that reads it and leaves the
\* accumulators as they were; a chunk of any other message is dispatched only
\* if it is the final one, and then the one body dispatched has the header's
\* bodyLength and is the concatenation of the message's chunks in wire order,
\* and nothing stays accumulated for the channel.
C16_Passthrough ==
    [][ ReadsChunk
        => LET c == peer.chunks[Len(frames')]
               x == dispatched'[Len(dispatched')]
           IN IF ~Reassembled(c.type)
              THEN /\ dispatched' = Append(dispatched, x)
                   /\ x.datatype = c.type
                   /\ x.data = c.data
                   /\ dec'.bucket = dec.bucket
              ELSE IF c.final
              THEN /\ dispatched' = Append(dispatched, x)
                   /\ x.datatype = c.type
                   /\ DLen(x.data) = c.len
                   /\ x.data = Concat(PeerChunksOf(c.m, Len(frames')))
                   /\ c.ch \notin DOMAIN dec'.bucket
                   /\ \A i \in DOMAIN dispatched : dispatched[i].data # x.data \/ c.len = 0
              ELSE /\ dispatched' = dispatched
                   /\ c.ch \in DOMAIN dec'.bucket
                   /\ dec'.bucket[c.ch] = Concat(PeerChunksOf(c.m, Len(frames'))) ]_vars

\* a streamable message of three chunks dispatched as three pieces, and a
\* message of another type, also of three chunks, dispatched as one body
C16_Witness ==
    /\ Len(dispatched) = 4
    /\ \A i \in 1..3 : dispatched[i].datatype = VIDEO_DATA
    /\ DLen(dispatched[1].data) = FRAME_SIZE
    /\ DLen(dispatched[3].data) = 300 - 2 * FRAME_SIZE
    /\ dispatched[4].datatype = INVOKE
    /\ dispatched[4].data = Body(2, 300)
    /\ Len(frames) = 6

\* the format of the chunk that carried the header of message m
ArrivedAs(m) == peer.fmt[m]

\* C17: stream timestamp policy.  A step that dispatches a message passes the
\* stream's timestamp as it is after the step; that timestamp is the header's
\* timestamp when the message's header arrived in a format-0 chunk, and the
\* stream's timestamp before the step plus the header's timestamp when it
\* arrived in a format-1 or format-2 chunk.
C17_TimestampPolicy ==
    [][ (ReadsChunk /\ Len(dispatched') = Len(dispatched) + 1)
        => LET c == peer.chunks[Len(frames')]
               x == dispatched'[Len(dispatched')]
               meta == dout'.meta[1]
           IN /\ x.timestamp = StreamTimestamp(dec'.streams, meta.streamId)
              /\ x.timestamp = IF ArrivedAs(c.m) = 0 THEN meta.timestamp
                               ELSE StreamTimestamp(dec.streams, meta.streamId)
                                        + meta.timestamp ]_vars

\* C20: release removes exactly the released channel.  A call of
\* releaseChannel(c) for a channel c that is active succeeds, takes c and
\* nothing else out of activeChannels, puts c at the front of
\* availableChannels and lowers channelsInUse by one.
C20_ReleaseExact ==
    [][ \A c \in ReleaseIds :
          (Release(c) /\ c \in Active(enc))
            => /\ eout'.kind = "ok"
               /\ enc'.activeChannels = SelectSeq(enc.activeChannels, LAMBDA a : a # c)
               /\ enc'.availableChannels = <<c>> \o enc.availableChannels
               /\ enc'.channelsInUse = enc.channelsInUse - 1 ]_vars

----------------------------------------------------------------------------
(* The decoder driven by a peer that references many channels.  The leading
   byte of a header keeps the values 0 and 1 for the longer forms, so the ids
   a header can name start at 2. *)

ChanIds == {2, 64, 65, 70}      \* the ids of the peer's single chunks
ChanLengths == {0, 100}
FloodTo == {63, 64}             \* a flood opens the channels 2 .. 63 or 2 .. 64

ChanHeaders ==
    { WireHeader(fmt, ch, 10, INVOKE, L, 1) :
        fmt \in {0, 3}, ch \in ChanIds, L \in ChanLengths }

\* one round of a flood from the state s = [kind, d, dispatched, frames]: the
\* peer writes an empty message on channel ch, the transport delivers it and
\* the driver calls Decoder.next until StopIteration
FloodOne(s, ch) ==
    IF s.kind # "StopIteration" THEN {s}
    ELSE LET h == WireHeader(0, ch, 10, INVOKE, 0, 1)
             d0 == FrameReader_send(s.d, encodeHeader(h))
         IN UNION { IF o.kind # "message"
                    THEN {[kind |-> o.kind, d |-> o.d, dispatched |-> s.dispatched,
                           frames |-> s.frames]}
                    ELSE {[kind |-> e.kind, d |-> e.d,
                           dispatched |-> Append(s.dispatched, Dispatch(o)),
                           frames |-> Append(s.frames, [ch |-> o.ch, data |-> o.frame,
                                                        complete |-> o.complete])]
                           : e \in Decoder_next(o.d)}
                    : o \in Decoder_next(d0) }

\* the rounds for the channels lo .. hi in turn (the run is cut in halves)
RECURSIVE FloodRun(_, _, _)
FloodRun(S, lo, hi) ==
    IF lo > hi THEN S
    ELSE IF lo = hi THEN UNION {FloodOne(s, lo) : s \in S}
    ELSE LET mid == (lo + hi) \div 2
             half == FloodRun(S, lo, mid)
         IN IF half = {} THEN {} ELSE FloodRun(half, mid + 1, hi)

\* the peer opens the channels 2 .. hi before anything else
Flood(hi) ==
    /\ dec = Codec_init
    /\ net = << >>
    /\ peer.next = 1
    /\ \E s \in FloodRun({[kind |-> "StopIteration", d |-> dec,
                           dispatched |-> dispatched, frames |-> frames]}, 2, hi) :
          /\ dec' = s.d
          /\ dispatched' = s.dispatched
          /\ frames' = s.frames
          /\ dout' = [NoOutcome("next") EXCEPT !.kind = s.kind]
    /\ UNCHANGED <<net, peer, resized>>
    /\ UNCHANGED encVars
    /\ UNCHANGED legVars

ChanNext ==
    \/ \E hi \in FloodTo : Flood(hi)
    \/ \E h \in ChanHeaders : \E n \in ChunkSizes(h) : PeerWrite(h, n)
    \/ \E k \in PushSizes \cup {DLen(net)} : Push(k)
    \/ Step

SpecChan == Init /\ [][ChanNext]_vars

\* C18: an out-of-range channel id is rejected.  A step that decodes a header
\* whose channelId is greater than MAX_CHANNELS ends with an error, leaves the
\* channel map as it was and yields no frame and no message.
C18_OutOfRange ==
    [][ (Step /\ Front.err = "ok" /\ FrontChannel > MAX_CHANNELS)
        => /\ dout'.kind = "IndexError"
           /\ dec'.channels = dec.channels
           /\ FrontChannel \notin DOMAIN dec'.channels
           /\ frames' = frames
           /\ dispatched' = dispatched
           /\ dec'.bucket = dec.bucket ]_vars

\* a header for channel 70 was refused by a codec that has channels
C18_Witness ==
    /\ dout.op = "next"
    /\ dout.kind = "IndexError"
    /\ dout.ch = 70
    /\ dec.channels # << >>
    /\ 70 \notin DOMAIN dec.channels

\* C19: the channel map of the codec never holds more than MAX_CHANNELS
\* channels, whatever ids the headers read have named.
C19_ChannelBound == Cardinality(DOMAIN dec.channels) <= MAX_CHANNELS

\* every id that getChannel takes from a header has a channel, and a header
\* naming one more was refused
C19_Witness ==
    /\ DOMAIN dec.channels = 2..MAX_CHANNELS
    /\ dout.kind = "IndexError"
    /\ dout.ch = MAX_CHANNELS + 1

----------------------------------------------------------------------------
(* Further properties of the channel pool and of the encoder *)

\* the ids the pool hands out
PoolIds == MIN_CHANNEL_ID..(MAX_CHANNELS - 1)

Elems(l) == {l[i] : i \in DOMAIN l}
NoRepeat(l) == \A i, j \in DOMAIN l : l[i] = l[j] => i = j

\* C22: the pool partitions the ids it hands out.  Every id of the pool is
\* exactly once in availableChannels or in activeChannels, never in both and
\* never twice in one, and no other id is in either.
C22_PoolPartition ==
    /\ Elems(enc.availableChannels) \cup Elems(enc.activeChannels) = PoolIds
    /\ Elems(enc.availableChannels) \cap Elems(enc.activeChannels) = {}
    /\ NoRepeat(enc.availableChannels)
    /\ NoRepeat(enc.activeChannels)

\* C23: the saturation test agrees with the pool.  isFull() is true exactly
\* when availableChannels is empty; aquireChannel returns None only when
\* isFull() was true, and ChannelMuxer.send raises no EncodeError when isFull()
\* was false before the call.
C23_IsFullAgrees ==
    /\ [](ChannelMuxer_isFull(enc) <=> enc.availableChannels = << >>)
    /\ [][ /\ (Acquire /\ eout'.kind = "None") => ChannelMuxer_isFull(enc)
           /\ \A L \in MsgLengths :
                 (MuxSend(L) /\ ~ChannelMuxer_isFull(enc)) => eout'.kind # "EncodeError" ]_vars

\* the pool is used up, isFull() is true and aquireChannel has returned None
C23_Witness ==
    /\ eout.op = "aquireChannel"
    /\ eout.kind = "None"
    /\ enc.availableChannels = << >>
    /\ enc.channelsInUse = MAX_CHANNELS - MIN_CHANNEL_ID
    /\ ChannelMuxer_isFull(enc)

\* C24: no queue jumping.  After every Encoder.send and Encoder.next call,
\* returned or raised, pending is non-empty only if the muxer is full; and a
\* message passed to send while another is pending is queued behind it and
\* given no channel.
C24_NoQueueJump ==
    /\ []((eout.op \in {"send", "next"} /\ enc.pending # << >>)
             => ChannelMuxer_isFull(enc))
    /\ [][ (SendCalled /\ enc.pending # << >>)
           => /\ Len(enc'.pending) = Len(enc.pending) + 1
              /\ SubSeq(enc'.pending, 1, Len(enc.pending)) = enc.pending
              /\ enc'.activeChannels = enc.activeChannels ]_vars

\* C25: the idle signal.  Encoder.next raises StopIteration exactly when,
\* after the muxer step of the call, pending and activeChannels are both
\* empty; it does not raise it while a message is pending or has body bytes
\* still to be written.
C25_IdleSignal ==
    /\ [][ NextCalled
           => (eout'.kind = "StopIteration"
                 <=> \E r \in ChannelMuxer_next(enc) :
                        /\ r.err = "ok" /\ enc' = r.e
                        /\ r.e.pending = << >> /\ r.e.activeChannels = << >>) ]_vars
    /\ []((eout.op = "next" /\ eout.kind = "StopIteration")
             => /\ enc.pending = << >>
                /\ \A i \in DOMAIN sent : Concat(ChunksOf(sent[i].m)) = sent[i].data)

----------------------------------------------------------------------------
(* Further properties of the decoder *)

\* The decoder driven by a peer whose headers change the datatype of a channel
\* from chunk to chunk
TypeLengths == {300}
TypeHeaders ==
    { WireHeader(fmt, ch, 10, type, L, 1) :
        fmt \in {0, 1, 3}, ch \in PeerChannels, type \in WireTypes, L \in TypeLengths }

TypeNext ==
    \/ \E h \in TypeHeaders : \E n \in ChunkSizes(h) : PeerWrite(h, n)
    \/ \E k \in PushSizes \cup {DLen(net)} : Push(k)
    \/ Step

SpecType == Init /\ [][TypeNext]_vars

\* a message that is reassembled is in progress on channel ch
InProgress(d, ch) ==
    /\ HasHeader(d, ch)
    /\ Reassembled(d.channels[ch].header[1].datatype)
    /\ d.channels[ch].bytes > 0

\* C26: bookkeeping of the reassembly buffer.  The bucket has an entry for a
\* channel only while a message that is reassembled is in progress on it, the
\* entry is as long as the channel's bytes counter says, and a step that
\* completes a message on a channel leaves no entry for it.
C26_BucketBookkeeping ==
    /\ [](\A ch \in DOMAIN dec.bucket :
            /\ InProgress(dec, ch)
            /\ DLen(dec.bucket[ch]) = dec.channels[ch].bytes)
    /\ [][ (Step /\ dout'.kind \in {"message", "NoMessage"} /\ dout'.complete)
           => dout'.ch \notin DOMAIN dec'.bucket ]_vars

\* how far a step moves the timestamp of stream sid
Advance(sid) == StreamTimestamp(dec'.streams, sid) - StreamTimestamp(dec.streams, sid)

\* a chunk of the message of chunk c was dispatched before c was read
DispatchedBefore(c) ==
    /\ ~Reassembled(c.type)
    /\ \E i \in DOMAIN ChunksRead : ChunksRead[i].m = c.m

\* C27: one timestamp advance per message.  A step that reads a chunk without
\* completing a message dispatches nothing and leaves every stream's timestamp
\* as it was; a step that dispatches adds header.timestamp to the stream's
\* timestamp the first time it dispatches for the message, and nothing for a
\* further chunk of the same message.
C27_OneAdvance ==
    [][ ReadsChunk
        => LET c == peer.chunks[Len(frames')]
           IN IF dout'.kind = "NoMessage"
              THEN dispatched' = dispatched /\ dec'.streams = dec.streams
              ELSE /\ Len(dispatched') = Len(dispatched) + 1
                   /\ \A sid \in DOMAIN dec'.streams :
                         Advance(sid) = IF sid = dout'.meta[1].streamId /\ ~DispatchedBefore(c)
                                        THEN dout'.meta[1].timestamp
                                        ELSE 0 ]_vars

----------------------------------------------------------------------------
(* The classes of rtmpy/rtmp/__init__.py and rtmpy/rtmp/stream.py driven by
   their callers *)

MaxLegacyCalls == 4     \* calls made on the channel, the manager and the stream

LegacyHeaders ==
    { Header(3, t, INVOKE, L, 1, relative) :
        t \in {Absent, 10}, L \in {100, 300}, relative \in BOOLEAN }
DataLengths == {0, 50, 100, 150}
LegacyIds == {-1, 0, 3, 64, 65}

LegacyOutcome(op, kind, arg, ret) ==
    [op |-> op, kind |-> kind, arg |-> arg, ret |-> ret, calls |-> lout.calls + 1]

\* the decoder calls Channel.setHeader
ChanSetHeader(header) ==
    LET r == LegacyChannel_setHeader(chan.c, header)
    IN /\ lout.calls < MaxLegacyCalls
       /\ chan' = [chan EXCEPT !.c = r.c]
       /\ lout' = LegacyOutcome("setHeader", r.err, Absent, Absent)
       /\ UNCHANGED <<mgr, strm>>
       /\ UNCHANGED <<net, encVars, decVars>>

\* the stream registers a BufferingChannelObserver with the channel
ChanRegisterObserver ==
    /\ lout.calls < MaxLegacyCalls
    /\ chan.c.observer = None
    /\ chan' = [chan EXCEPT !.c = LegacyChannel_registerObserver(@, BufferingChannelObserver)]
    /\ lout' = LegacyOutcome("registerObserver", "ok", Absent, Absent)
    /\ UNCHANGED <<mgr, strm>>
    /\ UNCHANGED <<net, encVars, decVars>>

\* the decoder calls Channel.dataReceived with l bytes
ChanDataReceived(l) ==
    LET r == LegacyChannel_dataReceived(chan.c, l, DEFAULT_FRAME_SIZE)
    IN /\ lout.calls < MaxLegacyCalls
       /\ chan' = [c |-> r.c,
                   completed |-> IF r.complete THEN chan.completed + 1 ELSE chan.completed]
       /\ lout' = LegacyOutcome("dataReceived", r.err, l, Absent)
       /\ UNCHANGED <<mgr, strm>>
       /\ UNCHANGED <<net, encVars, decVars>>

\* a caller asks the manager for a channel
MgrGetChannel(channelId) ==
    LET r == ChannelManager_getChannel(mgr, channelId)
    IN /\ lout.calls < MaxLegacyCalls
       /\ mgr' = r.m
       /\ lout' = LegacyOutcome("getChannel", r.err, channelId, r.ret)
       /\ UNCHANGED <<chan, strm>>
       /\ UNCHANGED <<net, encVars, decVars>>

\* the channel tells the stream's observer of a new header
StreamHeaderChanged(header) ==
    /\ lout.calls < MaxLegacyCalls
    /\ strm' = BufferingChannelObserver_headerChanged(strm, header)
    /\ lout' = LegacyOutcome("headerChanged", "ok", header, Absent)
    /\ UNCHANGED <<chan, mgr>>
    /\ UNCHANGED <<net, encVars, decVars>>

LegacyNext ==
    \/ \E header \in LegacyHeaders : ChanSetHeader(header)
    \/ ChanRegisterObserver
    \/ \E l \in DataLengths : ChanDataReceived(l)
    \/ \E channelId \in LegacyIds : MgrGetChannel(channelId)
    \/ \E header \in LegacyHeaders : StreamHeaderChanged(header)

SpecLegacy == Init /\ [][LegacyNext]_vars

DataReceivedCalled == lout'.calls = lout.calls + 1 /\ lout'.op = "dataReceived"

GetChannelCalled == lout'.calls = lout.calls + 1 /\ lout'.op = "getChannel"

\* C29: the range check of the manager.  ChannelManager.getChannel raises
\* IndexError for an id below 0 or above MAX_CHANNELS and then creates no
\* channel; for an id in range it returns the channel it returned before.
C29_ManagerRange ==
    [][ GetChannelCalled
        => LET channelId == lout'.arg
           IN IF channelId < 0 \/ channelId > MAX_CHANNELS
              THEN lout'.kind = "IndexError" /\ mgr'.channels = mgr.channels
              ELSE /\ lout'.kind = "ok"
                   /\ mgr'.channels[channelId] = lout'.ret
                   /\ channelId \in DOMAIN mgr.channels
                         => lout'.ret = mgr.channels[channelId] ]_vars

HeaderChangedCalled == lout'.calls = lout.calls + 1 /\ lout'.op = "headerChanged"

\* C30: the stream timestamp follows the header.  headerChanged with a header
\* that has a timestamp sets the stream's timestamp to it when the header is
\* absolute and adds it to the stream's timestamp when the header is relative;
\* with a header that has no timestamp the stream's timestamp is unchanged.
C30_HeaderTimestamp ==
    [][ HeaderChangedCalled
        => LET header == lout'.arg
           IN strm'.timestamp =
                 IF header.timestamp = Absent THEN strm.timestamp
                 ELSE IF header.relative THEN strm.timestamp + header.timestamp
                 ELSE header.timestamp ]_vars

====
